---- MODULE Spec2Model ----
(***************************************************************************)
(* gemfile_downloader: GemfileData::parse, download_gem, unpack_gem,       *)
(* unpack_tar_gz and the install_gems orchestration, as a state machine.   *)
(*                                                                         *)
(* Strings and paths are sequences of one-character strings, so that       *)
(* replace, split, starts_with, format!, join and file_stem are computed   *)
(* the way the code computes them.                                         *)
(***************************************************************************)
EXTENDS Naturals, Sequences, FiniteSets, TLC

(***************************************************************************)
(* Option and Result values.                                               *)
(***************************************************************************)
None == [some |-> FALSE, v |-> <<>>]
Some(x) == [some |-> TRUE, v |-> x]
Ok(x) == [ok |-> TRUE, v |-> x]
Err(e) == [ok |-> FALSE, v |-> e]

\* F of the value of x: x is computed once, whatever F does with it.
Let(x, F(_)) == CHOOSE r \in {F(v) : v \in {x}} : TRUE

(***************************************************************************)
(* str operations used by the parser.                                      *)
(***************************************************************************)
Range(s) == {s[k] : k \in 1..Len(s)}

Drop(s, n) == SubSeq(s, n + 1, Len(s))

StartsWith(s, p) == Len(s) >= Len(p) /\ SubSeq(s, 1, Len(p)) = p

EndsWith(s, p) == Len(s) >= Len(p) /\ SubSeq(s, Len(s) - Len(p) + 1, Len(s)) = p

\* The recursions over a string are written as functions of the string: a
\* function's argument is a value, computed once.
Str == Seq(STRING)

\* str::replace: every non-overlapping match of `from`, left to right.
Replace(s, from, to) ==
    LET R[t \in Str] ==
            IF t = <<>> THEN <<>>
            ELSE IF StartsWith(t, from) THEN to \o R[Drop(t, Len(from))]
            ELSE <<Head(t)>> \o R[Tail(t)]
    IN R[s]

\* The first position of character c in s, 0 when there is none.
Find(s, c) ==
    Let({k \in 1..Len(s) : s[k] = c}, LAMBDA hits :
        IF hits = {} THEN 0 ELSE CHOOSE k \in hits : \A j \in hits : k <= j)

\* str::split on a one-character separator: always at least one piece.
Split(s, c) ==
    LET R[t \in Str] ==
            IF Find(t, c) = 0 THEN <<t>>
            ELSE <<SubSeq(t, 1, Find(t, c) - 1)>> \o R[Drop(t, Find(t, c))]
    IN R[s]

\* One line without its terminator: a "\r" before the "\n" is dropped too.
WithoutCr(piece) ==
    IF EndsWith(piece, <<"\r">>) THEN SubSeq(piece, 1, Len(piece) - 1) ELSE piece

\* str::lines: pieces ended by "\n"; a final piece without terminator is a
\* line only when it is not empty.
Lines(s) ==
    LET R[t \in Str] ==
            IF t = <<>> THEN <<>>
            ELSE IF Find(t, "\n") = 0 THEN <<t>>
            ELSE <<WithoutCr(SubSeq(t, 1, Find(t, "\n") - 1))>> \o R[Drop(t, Find(t, "\n"))]
    IN R[s]

\* The loop of parser.rs:46-51: drop leading " " characters one at a time.
StripLeadingSpaces(line) ==
    LET R[t \in Str] == IF ~StartsWith(t, <<" ">>) THEN t ELSE R[Drop(t, 1)]
    IN R[line]

Digits == {"0", "1", "2", "3", "4", "5", "6", "7", "8", "9"}

\* Regex::new(GEM_VERSION_REGEX).is_match: the pattern is not anchored, so it
\* matches when some substring is digits "." digits "." digits.
GEM_VERSION_REGEX_is_match(s) ==
    \E a \in 1..Len(s) : \E b \in (a + 1)..Len(s) :
        /\ s[a] = "." /\ s[b] = "."
        /\ a > 1 /\ s[a - 1] \in Digits
        /\ b > a + 1 /\ \A k \in (a + 1)..(b - 1) : s[k] \in Digits
        /\ b < Len(s) /\ s[b + 1] \in Digits

S_source == <<"s", "o", "u", "r", "c", "e", " ">>
S_gem == <<"g", "e", "m", " ">>
\* parser.rs:40, "https://rubygems.org"
DefaultSource ==
    <<"h", "t", "t", "p", "s", ":", "/", "/", "r", "u", "b", "y", "g", "e", "m", "s", ".", "o", "r", "g">>

\* parser.rs:55-57
SourceOf(line) ==
    Replace(Replace(Replace(line, S_source, <<>>), <<"\"">>, <<>>), <<"'">>, <<>>)

\* parser.rs:62-67
Trimmed(line) ==
    Replace(Replace(Replace(Replace(Replace(Replace(line,
        S_gem, <<>>), <<"\"">>, <<>>), <<"~", ">">>, <<>>), <<" ">>, <<>>),
        <<"\"">>, <<>>), <<"'">>, <<>>)

\* parser.rs:69
Splitted(line) == Split(Trimmed(line), ",")

\* parser.rs:72
IsPinned(line) ==
    Len(Splitted(line)) >= 2 /\ GEM_VERSION_REGEX_is_match(Splitted(line)[2])

(***************************************************************************)
(* std::path operations.                                                   *)
(***************************************************************************)
Last(s) == s[Len(s)]

IsNormal(c) == c # <<>> /\ c # <<".">>

\* Path::components, without the root: empty pieces and "." are skipped.
Components(p) == SelectSeq(Split(p, "/"), IsNormal)

\* Path::join (PathBuf::push): an absolute argument replaces the base.
Join(base, p) ==
    IF StartsWith(p, <<"/">>) THEN p
    ELSE IF base = <<>> \/ EndsWith(base, <<"/">>) THEN base \o p
    ELSE base \o <<"/">> \o p

\* Path::file_name: the last component, unless there is none or it is "..".
FileName(p) ==
    LET cs == Components(p)
    IN IF cs = <<>> THEN None
       ELSE IF Last(cs) = <<".", ".">> THEN None
       ELSE Some(Last(cs))

\* The position of the last "." of a file name, 0 when it has none.
LastDot(n) ==
    IF \E k \in 1..Len(n) : n[k] = "."
    THEN CHOOSE k \in 1..Len(n) : n[k] = "." /\ \A j \in (k + 1)..Len(n) : n[j] # "."
    ELSE 0

\* Path::file_stem: the file name up to its last ".", the whole name when
\* it has no "." or only a leading one.
FileStem(p) ==
    Let(FileName(p), LAMBDA fname :
        IF ~fname.some THEN None
        ELSE IF LastDot(fname.v) <= 1 THEN Some(fname.v)
        ELSE Some(SubSeq(fname.v, 1, LastDot(fname.v) - 1)))

\* Path::parent as a string: everything before the last "/".
ParentOf(p) ==
    IF \E k \in 1..Len(p) : p[k] = "/"
    THEN SubSeq(p, 1, (CHOOSE k \in 1..Len(p) :
                          p[k] = "/" /\ \A j \in (k + 1)..Len(p) : p[j] # "/") - 1)
    ELSE <<>>

\* The components of p once every ".." has stepped back to the parent: at
\* the start of a relative path a ".." stays, at the root it is dropped.
ResolvedComponents(p) ==
    LET R[t \in Seq(Str)] ==
            IF t = <<>> THEN <<>>
            ELSE Let(R[SubSeq(t, 1, Len(t) - 1)], LAMBDA before :
                   IF Last(t) # <<".", ".">> THEN Append(before, Last(t))
                   ELSE IF before # <<>> /\ Last(before) # <<".", ".">>
                   THEN SubSeq(before, 1, Len(before) - 1)
                   ELSE IF StartsWith(p, <<"/">>) THEN before
                   ELSE Append(before, Last(t)))
    IN R[Components(p)]

(***************************************************************************)
(* The filesystem: a function from paths to DIR or to a file's content.    *)
(* File contents are named blobs; what a blob decodes to is given by       *)
(* TarOf (the tar codec) and Gunzip (the gzip codec).                      *)
(***************************************************************************)
DIR == "<dir>"

Exists(f, p) == p \in DOMAIN f

IsDir(f, p) == Exists(f, p) /\ f[p] = DIR

IsFile(f, p) == Exists(f, p) /\ f[p] # DIR

Under(p, d) == p = d \/ StartsWith(p, d \o <<"/">>)

\* p and every proper ancestor of p
Ancestors(p) ==
    {SubSeq(p, 1, k - 1) : k \in {k \in 2..Len(p) : p[k] = "/"}} \cup {p}

\* std::fs::remove_dir_all
RemoveDirAll(f, d) == [p \in {q \in DOMAIN f : ~Under(q, d)} |-> f[p]]

\* std::fs::create_dir_all: fails when a component exists as a file.
CanCreateDirAll(f, d) == \A a \in Ancestors(d) : ~IsFile(f, a)

CreateDirAll(f, d) ==
    IF d = <<>> THEN f
    ELSE [p \in DOMAIN f \cup Ancestors(d) |-> IF p \in DOMAIN f THEN f[p] ELSE DIR]

\* File::create: the parent must be a directory, the path must not be one.
CanCreateFile(f, p) == ~IsDir(f, p) /\ (ParentOf(p) = <<>> \/ IsDir(f, ParentOf(p)))

WriteFile(f, p, blob) == [q \in DOMAIN f \cup {p} |-> IF q = p THEN blob ELSE f[q]]

S_data_tar_gz == <<"d", "a", "t", "a", ".", "t", "a", "r", ".", "g", "z">>
S_metadata_gz == <<"m", "e", "t", "a", "d", "a", "t", "a", ".", "g", "z">>
S_Gemfile == <<"G", "e", "m", "f", "i", "l", "e">>
S_lib_a_rb == <<"l", "i", "b", "/", "a", ".", "r", "b">>
S_lib_Gemfile == <<"l", "i", "b", "/", "G", "e", "m", "f", "i", "l", "e">>
S_up_rb == <<".", ".", "/", "u", "p", ".", "r", "b">>
S_abs_rb == <<"/", "a", "b", "s", ".", "r", "b">>

\* unpack_gem.rs:10
GEM_DATA_FILE == S_data_tar_gz

\* The tar codec: the entries a blob yields when read as a tar stream, and
\* whether the stream reads to its end. A blob that is no tar yields no
\* entry and an error.
TarOf(blob) ==
    CASE blob = "gem_plain" ->
           [entries |-> <<[path |-> S_metadata_gz, body |-> "meta"],
                          [path |-> S_data_tar_gz, body |-> "gz_plain"]>>, complete |-> TRUE]
      [] blob = "gem_gemfile" ->
           [entries |-> <<[path |-> S_metadata_gz, body |-> "meta"],
                          [path |-> S_data_tar_gz, body |-> "gz_gemfile"]>>, complete |-> TRUE]
      [] blob = "gem_nodata" ->
           [entries |-> <<[path |-> S_metadata_gz, body |-> "meta"]>>, complete |-> TRUE]
      [] blob = "gem_badgz" ->
           [entries |-> <<[path |-> S_data_tar_gz, body |-> "junk"]>>, complete |-> TRUE]
      [] blob = "gem_badtar" ->
           [entries |-> <<[path |-> S_data_tar_gz, body |-> "gz_trunc"]>>, complete |-> TRUE]
      [] blob = "tar_plain" ->
           [entries |-> <<[path |-> S_lib_a_rb, body |-> "rb"]>>, complete |-> TRUE]
      [] blob = "tar_gemfile" ->
           [entries |-> <<[path |-> S_Gemfile, body |-> "gemfile"],
                          [path |-> S_lib_a_rb, body |-> "rb"]>>, complete |-> TRUE]
      [] blob = "gem_names" ->
           [entries |-> <<[path |-> S_data_tar_gz, body |-> "gz_names"]>>, complete |-> TRUE]
      [] blob = "tar_names" ->
           [entries |-> <<[path |-> S_Gemfile, body |-> "gemfile"],
                          [path |-> S_up_rb, body |-> "rb"],
                          [path |-> S_abs_rb, body |-> "rb"],
                          [path |-> S_lib_Gemfile, body |-> "gemfile2"]>>, complete |-> TRUE]
      [] blob = "tar_trunc" ->
           [entries |-> <<[path |-> S_lib_a_rb, body |-> "rb"]>>, complete |-> FALSE]
      [] OTHER -> [entries |-> <<>>, complete |-> FALSE]

\* The gzip codec: the blob a gzip stream decodes to, or an error.
Gunzip(blob) ==
    CASE blob = "gz_plain" -> Ok("tar_plain")
      [] blob = "gz_gemfile" -> Ok("tar_gemfile")
      [] blob = "gz_trunc" -> Ok("tar_trunc")
      [] blob = "gz_names" -> Ok("tar_names")
      [] OTHER -> Err("")

\* What a GET of a .gem url can answer with status 200.
GemBlobs == {"gem_plain", "gem_gemfile", "gem_nodata", "gem_badgz"}

\* The same, with an archive whose inner tar is cut short and one whose
\* inner tar has a nested, a "..", and an absolute entry name.
InstallGemBlobs == GemBlobs \cup {"gem_badtar", "gem_names"}

(***************************************************************************)
(* The two extraction steps, as functions of the filesystem. Each returns  *)
(* the filesystem it leaves and its Result.                                *)
(***************************************************************************)
JoinComponents(cs) ==
    LET R[t \in Seq(Str)] ==
            IF t = <<>> THEN <<>>
            ELSE IF Len(t) = 1 THEN t[1]
            ELSE t[1] \o <<"/">> \o R[Tail(t)]
    IN R[cs]

\* The file a path names for the operating system: no symbolic link is
\* involved, so the path is resolved by its components alone.
Resolve(p) ==
    (IF StartsWith(p, <<"/">>) THEN <<"/">> ELSE <<>>) \o JoinComponents(ResolvedComponents(p))

\* tar::Archive::unpack (Entry::unpack_in for each entry): an entry with a
\* ".." component is skipped, the root of an absolute name is dropped, the
\* parent directories are created and the file is written over any old one.
RECURSIVE ArchiveUnpackEntries(_, _, _)
ArchiveUnpackEntries(f0, dst0, entries0) ==
    Let(<<f0, dst0, entries0>>, LAMBDA a :
        LET f == a[1]
            dst == a[2]
            entries == a[3]
        IN IF entries = <<>> THEN [fs |-> f, ok |-> TRUE]
           ELSE Let(<<Components(Head(entries).path)>>, LAMBDA c :
                  LET cs == c[1]
                  IN IF <<".", ".">> \in Range(cs) \/ cs = <<>>
                     THEN ArchiveUnpackEntries(f, dst, Tail(entries))
                     ELSE Let(Join(dst, JoinComponents(cs)), LAMBDA dest :
                            IF ~CanCreateDirAll(f, ParentOf(dest))
                            THEN [fs |-> f, ok |-> FALSE]
                            ELSE Let(CreateDirAll(f, ParentOf(dest)), LAMBDA f1 :
                                   IF ~CanCreateFile(f1, dest)
                                   THEN [fs |-> f, ok |-> FALSE]
                                   ELSE ArchiveUnpackEntries(
                                            WriteFile(f1, dest, Head(entries).body),
                                            dst, Tail(entries))))))

ArchiveUnpack(f, blob, dst) ==
    Let(ArchiveUnpackEntries(f, dst, TarOf(blob).entries), LAMBDA r :
        [fs |-> r.fs, ok |-> r.ok /\ TarOf(blob).complete])

\* unpack_gem.rs:22-25, and the same lines of unpack_tar
\* (unpack_tar_gz.rs:68-71): an existing directory is removed, then the
\* directory is created.
ResetDir_remove_only(f, directory) ==
    IF Exists(f, directory) /\ ~IsDir(f, directory)
    THEN [fs |-> f, ok |-> FALSE]
    ELSE IF Exists(f, directory) THEN [fs |-> RemoveDirAll(f, directory), ok |-> FALSE]
    ELSE IF ~CanCreateDirAll(f, directory) THEN [fs |-> f, ok |-> FALSE]
    ELSE [fs |-> CreateDirAll(f, directory), ok |-> TRUE]
ResetDir(f, directory) ==
    IF Exists(f, directory) /\ ~IsDir(f, directory)
    THEN [fs |-> f, ok |-> FALSE]
    ELSE Let(IF Exists(f, directory) THEN RemoveDirAll(f, directory) ELSE f, LAMBDA f1 :
           IF ~CanCreateDirAll(f1, directory)
           THEN [fs |-> f1, ok |-> FALSE]
           ELSE [fs |-> CreateDirAll(f1, directory), ok |-> TRUE])

\* unpack_gem.rs:32-37, without the check of line 34
DataPath_nocheck(f, directory) == Ok(Join(directory, GEM_DATA_FILE))
\* unpack_gem.rs:32-37
DataPath(f, directory) ==
    IF ~Exists(f, Join(directory, GEM_DATA_FILE))
    THEN Err(<<"data.tar.gz not found">>)
    ELSE Ok(Join(directory, GEM_DATA_FILE))

\* unpack_gem.rs:20-38
unpack_gem(f0, path0, directory0) ==
    Let(<<f0, path0, directory0>>, LAMBDA a :
        LET f == a[1]
            path == a[2]
            directory == a[3]
        IN Let(ResetDir(f, directory), LAMBDA reset :
             IF ~reset.ok THEN [fs |-> reset.fs, result |-> Err(<<"reset">>)]
             ELSE IF ~IsFile(reset.fs, path)
             THEN [fs |-> reset.fs, result |-> Err(<<"open">>)]
             ELSE Let(ArchiveUnpack(reset.fs, reset.fs[path], directory), LAMBDA un :
                    IF ~un.ok THEN [fs |-> un.fs, result |-> Err(<<"unpack">>)]
                    ELSE [fs |-> un.fs, result |-> DataPath(un.fs, directory)])))

\* unpack_tar_gz.rs:36-57
unpack_gz(f0, gz_path0, directory0) ==
    Let(<<f0, gz_path0, directory0>>, LAMBDA a :
        LET f == a[1]
            gz_path == a[2]
            directory == a[3]
        IN IF ~Exists(f, directory) /\ ~CanCreateDirAll(f, directory)
           THEN [fs |-> f, result |-> Err(<<"create_dir_all">>)]
           ELSE Let(IF ~Exists(f, directory) THEN CreateDirAll(f, directory) ELSE f, LAMBDA f1 :
                  IF ~IsFile(f1, gz_path)
                  THEN [fs |-> f1, result |-> Err(<<"open">>)]
                  ELSE IF ~FileStem(gz_path).some
                  THEN [fs |-> f1, result |-> Err(<<".gz file has not stem">>)]
                  ELSE Let(Join(directory, FileStem(gz_path).v), LAMBDA output_file_path :
                         IF ~CanCreateFile(f1, output_file_path)
                         THEN [fs |-> f1, result |-> Err(<<"create">>)]
                         ELSE IF ~Gunzip(f1[gz_path]).ok
                         THEN [fs |-> WriteFile(f1, output_file_path, "partial"),
                               result |-> Err(<<"gzip">>)]
                         ELSE [fs |-> WriteFile(f1, output_file_path, Gunzip(f1[gz_path]).v),
                               result |-> Ok(output_file_path)])))

\* unpack_tar_gz.rs:94-98
EntryGemfile_first(file_path, entry_gemfile) ==
    IF FileName(file_path).some /\ FileName(file_path).v = S_Gemfile /\ ~entry_gemfile.some
    THEN Some(file_path) ELSE entry_gemfile
EntryGemfile(file_path, entry_gemfile) ==
    IF FileName(file_path).some /\ FileName(file_path).v = S_Gemfile
    THEN Some(file_path) ELSE entry_gemfile

\* The loop of unpack_tar, unpack_tar_gz.rs:81-99: each entry is written to
\* directory.join(entry path), as Entry::unpack does, without a look at
\* where that is; the last entry named Gemfile is remembered. `written` is
\* the set of files the loop wrote.
RECURSIVE UnpackTarEntries(_, _, _, _, _)
UnpackTarEntries(f0, directory0, entries0, entry_gemfile0, written0) ==
    Let(<<f0, directory0, entries0, entry_gemfile0, written0>>, LAMBDA a :
        LET f == a[1]
            directory == a[2]
            entries == a[3]
            entry_gemfile == a[4]
            written == a[5]
        IN IF entries = <<>>
           THEN [fs |-> f, ok |-> TRUE, entry_gemfile |-> entry_gemfile, written |-> written]
           ELSE Let(Join(directory, Head(entries).path), LAMBDA file_path :
                Let(<<Resolve(ParentOf(file_path)), Resolve(file_path)>>, LAMBDA at :
                  IF ~Exists(f, at[1]) /\ ~CanCreateDirAll(f, at[1])
                  THEN [fs |-> f, ok |-> FALSE, entry_gemfile |-> entry_gemfile,
                        written |-> written]
                  ELSE Let(IF ~Exists(f, at[1]) THEN CreateDirAll(f, at[1]) ELSE f, LAMBDA f1 :
                         IF ~CanCreateFile(f1, at[2])
                         THEN [fs |-> f, ok |-> FALSE, entry_gemfile |-> entry_gemfile,
                               written |-> written]
                         ELSE UnpackTarEntries(
                                  WriteFile(f1, at[2], Head(entries).body),
                                  directory, Tail(entries),
                                  EntryGemfile(file_path, entry_gemfile),
                                  written \cup {at[2]})))))

\* unpack_tar_gz.rs:67-102
unpack_tar(f0, tar_path0, directory0) ==
    Let(<<f0, tar_path0, directory0>>, LAMBDA a :
        LET f == a[1]
            tar_path == a[2]
            directory == a[3]
        IN Let(ResetDir(f, directory), LAMBDA reset :
             IF ~reset.ok THEN [fs |-> reset.fs, result |-> Err(<<"reset">>), written |-> {}]
             ELSE IF ~IsFile(reset.fs, tar_path)
             THEN [fs |-> reset.fs, result |-> Err(<<"open">>), written |-> {}]
             ELSE Let(UnpackTarEntries(reset.fs, directory, TarOf(reset.fs[tar_path]).entries,
                                       None, {}),
                      LAMBDA un :
                    IF ~un.ok \/ ~TarOf(reset.fs[tar_path]).complete
                    THEN [fs |-> un.fs, result |-> Err(<<"tar entry">>), written |-> un.written]
                    ELSE [fs |-> un.fs, result |-> Ok(un.entry_gemfile), written |-> un.written])))

\* unpack_tar_gz.rs:20-25
unpack_tar_gz(f, tar_gz_path, cache_dir, directory) ==
    Let(unpack_gz(f, tar_gz_path, cache_dir), LAMBDA gz :
        IF ~gz.result.ok THEN [fs |-> gz.fs, result |-> gz.result, written |-> {}]
        ELSE unpack_tar(gz.fs, gz.result.v, directory))

(***************************************************************************)
(* Inputs: the manifest lines a run is given, the two directories, and     *)
(* what the registry may answer.                                           *)
(***************************************************************************)
MaxLines == 2
MaxParseLines == 2

L_gem_a_pinned == <<" ", "g", "e", "m", " ", "\"", "a", "\"", ",", " ", "\"", "~", ">", " ", "1", ".", "0", ".", "0", "\"">>
L_gem_b == <<"g", "e", "m", " ", "'", "b", "'">>
L_source_s == <<"s", "o", "u", "r", "c", "e", " ", "\"", "s", "\"">>
L_gem_a_two == <<" ", " ", "g", "e", "m", " ", "'", "a", "'", ",", " ", "'", "~", ">", " ", "1", ".", "0", "'", ",", " ", "'", ">", "=", " ", "1", ".", "0", ".", "7", "'">>
L_gem_c_opt == <<"g", "e", "m", " ", "'", "c", "'", ",", " ", "r", "e", "q", "u", "i", "r", "e", ":", " ", "f", "a", "l", "s", "e">>
L_gem_d_ge == <<"g", "e", "m", " ", "'", "d", "'", ",", " ", "'", ">", "=", "1", ".", "2", ".", "3", "'">>
L_gemspec == <<"g", "e", "m", "s", "p", "e", "c">>
L_comment == <<"#", " ", "g", "e", "m", " ", "\"", "x", "\"">>
L_tab_gem_e == <<"\t", "g", "e", "m", " ", "'", "e", "'", ",", " ", "'", "1", ".", "0", ".", "0", "'">>
L_gem_noname == <<"g", "e", "m", " ", "\"", "\"", ",", " ", "\"", "1", ".", "0", ".", "0", "\"">>
L_blank == <<>>
V_1_0_0 == <<"1", ".", "0", ".", "0">>
V_2_0_0 == <<"2", ".", "0", ".", "0">>

\* The lines of the manifests given to install_from_gemfile_literal.
GemfileLines == {L_gem_a_pinned, L_gem_b, L_source_s}

\* The lines of the manifests given to GemfileData::parse alone.
ParseLines ==
    {L_gem_a_pinned, L_gem_b, L_source_s, L_gem_a_two, L_gem_c_opt, L_gem_d_ge,
     L_gemspec, L_comment, L_tab_gem_e, L_gem_noname, L_blank}

SeqsUpTo(S, n) == UNION {[1..k -> S] : k \in 0..n}

JoinLines(ls) ==
    LET R[t \in Seq(Str)] ==
            IF t = <<>> THEN <<>>
            ELSE IF Len(t) = 1 THEN t[1]
            ELSE t[1] \o <<"\n">> \o R[Tail(t)]
    IN R[ls]

cache_directory == <<"c">>
install_dictionary == <<"g">>

\* gem_version.rs:24-36: the registry answers with an error or with one of
\* the versions it serves.
LookupResults(versions) ==
    {Err(<<"Failed to get gem version">>)} \cup {Ok(v) : v \in versions}

\* download.rs:27-31: reqwest::get fails, or answers with a status.
Responses ==
    {[ok |-> FALSE, status |-> 0], [ok |-> TRUE, status |-> 404], [ok |-> TRUE, status |-> 200]}

\* download.rs:32: response.bytes() fails, or gives the body.
Bodies(blobs) == {Err("")} \cup {Ok(b) : b \in blobs}

(***************************************************************************)
(* State.                                                                  *)
(***************************************************************************)
VARIABLES
    entry,            \* the function called: install_from_gemfile_literal or parse
    data,             \* the manifest text
    registry,         \* the versions the registry serves
    main,             \* where the called function is
    line_no,          \* parse: the line the loop is at
    source,           \* parse: source
    gems,             \* parse: gems
    lookups,          \* every GemVersion::get_version call made, with its answer
    result,           \* what the called function returned, None until it has
    pc,               \* per task of install_gems: where the async block is
    bytes,            \* per task: the response body
    download_result,  \* per task, lib.rs:95
    gem_name,         \* per task, lib.rs:99
    gz_result,        \* per task, lib.rs:110
    tar_gz_result,    \* per task, lib.rs:116
    installed_gems,   \* lib.rs:83, the Vec behind the Mutex
    gemfiles,         \* lib.rs:85, the Vec behind the Mutex
    lock,             \* the holder of each Mutex, 0 when free
    arc,              \* the strong count of each Arc
    fs,               \* the filesystem
    ops,              \* every network and filesystem operation a task has made
    first             \* install_gems called twice: the state the first call left

parse_vars == <<data, registry, line_no, source, gems, lookups>>
task_vars == <<pc, bytes, download_result, gem_name, gz_result, tar_gz_result>>
shared_vars == <<installed_gems, gemfiles, lock, arc>>
vars == <<entry, main, result, parse_vars, task_vars, shared_vars, fs, ops, first>>

Unset == Err(<<>>)

InitCommon ==
    /\ main = "parse"
    /\ line_no = 1
    /\ source = DefaultSource
    /\ gems = <<>>
    /\ lookups = <<>>
    /\ result = None
    /\ pc = <<>>
    /\ bytes = <<>>
    /\ download_result = <<>>
    /\ gem_name = <<>>
    /\ gz_result = <<>>
    /\ tar_gz_result = <<>>
    /\ installed_gems = <<>>
    /\ gemfiles = <<>>
    /\ lock = [installed_gems |-> 0, gemfiles |-> 0]
    /\ arc = [installed_gems |-> 0, gemfiles |-> 0]
    /\ fs = <<>>
    /\ ops = {}
    /\ first = None

\* install_from_gemfile_literal(gemfile_context, install_dictionary, cache_directory)
Init ==
    /\ entry = "install_from_gemfile_literal"
    /\ data \in {JoinLines(ls) : ls \in SeqsUpTo(GemfileLines, MaxLines)}
    /\ registry = {V_2_0_0}
    /\ InitCommon

\* GemfileData::parse(data)
InitParse ==
    /\ entry = "parse"
    /\ data \in {JoinLines(ls) : ls \in SeqsUpTo(ParseLines, MaxParseLines)}
    /\ registry = {V_1_0_0, V_2_0_0}
    /\ InitCommon

(***************************************************************************)
(* GemfileData::parse, one action per iteration of the loop over lines.    *)
(***************************************************************************)
CurrentLine == StripLeadingSpaces(Lines(data)[line_no])

AtLine == main = "parse" /\ line_no <= Len(Lines(data))

\* parser.rs:54-58
SourceAfter_kept(line) == source
SourceAfter(line) == IF StartsWith(line, S_source) THEN SourceOf(line) ELSE source

\* parser.rs:60
IsGemLine_prefix(line) == StartsWith(line, <<"g", "e", "m">>)
IsGemLine(line) == StartsWith(line, S_gem)

\* parser.rs:78
NeedsLookup_always(line) == Len(Splitted(line)) >= 1
NeedsLookup(line) == ~IsPinned(line) /\ Len(Splitted(line)) >= 1

\* A line that is no gem line: only a source line changes anything.
parse_other ==
    /\ AtLine
    /\ ~IsGemLine(CurrentLine)
    /\ source' = SourceAfter(CurrentLine)
    /\ line_no' = line_no + 1
    /\ UNCHANGED <<entry, first, main, result, data, registry, gems, lookups, task_vars, shared_vars, fs, ops>>

\* parser.rs:72-77: the second token carries a version.
parse_gem_pinned ==
    /\ AtLine
    /\ IsGemLine(CurrentLine)
    /\ IsPinned(CurrentLine)
    /\ source' = SourceAfter(CurrentLine)
    /\ gems' = Append(gems, [name |-> Splitted(CurrentLine)[1],
                             version |-> Splitted(CurrentLine)[2]])
    /\ line_no' = line_no + 1
    /\ UNCHANGED <<entry, first, main, result, data, registry, lookups, task_vars, shared_vars, fs, ops>>

\* parser.rs:80: on an error the `?` returns it from parse, and the `?` of
\* lib.rs:66 returns it from install_from_gemfile_literal.
LookupFailed_skip(r) ==
    /\ line_no' = line_no + 1
    /\ UNCHANGED <<gems, main, result>>
LookupFailed(r) ==
    /\ main' = "returned"
    /\ result' = Some(Err(r.v))
    /\ UNCHANGED <<gems, line_no>>

\* parser.rs:83-86
LookupAnswered(r) ==
    /\ gems' = Append(gems, [name |-> Splitted(CurrentLine)[1], version |-> r.v])
    /\ line_no' = line_no + 1
    /\ UNCHANGED <<main, result>>

\* parser.rs:78-87: the version is asked of the registry.
parse_gem_lookup ==
    /\ AtLine
    /\ IsGemLine(CurrentLine)
    /\ NeedsLookup(CurrentLine)
    /\ source' = SourceAfter(CurrentLine)
    /\ \E r \in LookupResults(registry) :
        /\ lookups' = Append(lookups, [line |-> line_no, source |-> source',
                                       gem_name |-> Splitted(CurrentLine)[1], answer |-> r])
        /\ IF r.ok THEN LookupAnswered(r) ELSE LookupFailed(r)
    /\ UNCHANGED <<entry, first, data, registry, task_vars, shared_vars, fs, ops>>

\* parser.rs:91, and lib.rs:66-68 when parse was called by
\* install_from_gemfile_literal.
parse_return ==
    /\ main = "parse"
    /\ line_no > Len(Lines(data))
    /\ IF entry = "parse"
       THEN main' = "returned" /\ result' = Some(Ok([source |-> source, gems |-> gems]))
       ELSE main' = "install_gems" /\ UNCHANGED result
    /\ UNCHANGED <<entry, first, parse_vars, task_vars, shared_vars, fs, ops>>

NextParse == parse_other \/ parse_gem_pinned \/ parse_gem_lookup \/ parse_return

SpecParse == InitParse /\ [][NextParse]_vars

(***************************************************************************)
(* install_gems. join_all polls the tasks on one thread: a task runs from  *)
(* one await to the next without another task running in between.          *)
(***************************************************************************)
S_downloads == <<"/", "d", "o", "w", "n", "l", "o", "a", "d", "s", "/">>
S_dot_gem == <<".", "g", "e", "m">>

Tasks == DOMAIN pc

Terminal ==
    {"done", "failed_download", "failed_file_stem", "failed_unpack_gem", "failed_unpack_tar_gz"}

\* The positions a task cannot be left at by the scheduler: no await lies
\* between them and the next position.
SyncPcs ==
    {"download_write", "file_stem", "unpack_gem", "unpack_tar_gz", "push_installed", "push_gemfiles"}

Scheduled(i) == i \in Tasks /\ \A j \in Tasks \ {i} : pc[j] \notin SyncPcs

\* download.rs:22
Url(src, gem) == src \o S_downloads \o gem.name \o <<"-">> \o gem.version \o S_dot_gem

\* download.rs:24
Filename(gem) == gem.name \o <<"-">> \o gem.version \o S_dot_gem

\* lib.rs:105 and lib.rs:107
CacheSubdir_in_install(i) == Join(install_dictionary, gem_name[i].v)
CacheSubdir(i) == Join(cache_directory, gem_name[i].v)
GemsSubdir(i) == Join(install_dictionary, gem_name[i].v)

Op(i, op, target) == [task |-> i, op |-> op, target |-> target]

\* lib.rs:83-133: the two Arcs, and one task per gem holding a clone of each.
install_gems_start ==
    /\ main = "install_gems"
    /\ main' = "join_all"
    /\ pc' = [i \in 1..Len(gems) |-> "download_gem"]
    /\ bytes' = [i \in 1..Len(gems) |-> ""]
    /\ download_result' = [i \in 1..Len(gems) |-> Unset]
    /\ gem_name' = [i \in 1..Len(gems) |-> None]
    /\ gz_result' = [i \in 1..Len(gems) |-> Unset]
    /\ tar_gz_result' = [i \in 1..Len(gems) |-> Unset]
    /\ installed_gems' = <<>>
    /\ gemfiles' = <<>>
    /\ arc' = [installed_gems |-> 1 + Len(gems), gemfiles |-> 1 + Len(gems)]
    /\ UNCHANGED <<entry, first, result, parse_vars, lock, fs, ops>>

\* Vec::push under the MutexGuard, lib.rs:123 and lib.rs:127
VecPush_lost(vec, x) == <<x>>
VecPush(vec, x) == Append(vec, x)

\* The MutexGuard is a temporary: it is dropped, and the Mutex released, at
\* the end of the statement that locked it (lib.rs:123, lib.rs:127-130).
MutexGuardDrop_leak(name) == lock
MutexGuardDrop(name) == [lock EXCEPT ![name] = 0]

\* The async block ends (a `return;` or its last line): its captures, the
\* clones of the two Arcs among them, are dropped.
TaskReturn_leak(i, at) ==
    /\ pc' = [pc EXCEPT ![i] = at]
    /\ UNCHANGED arc
TaskReturn(i, at) ==
    /\ pc' = [pc EXCEPT ![i] = at]
    /\ arc' = [installed_gems |-> arc.installed_gems - 1, gemfiles |-> arc.gemfiles - 1]

\* download.rs:27-31, and lib.rs:96-98 on an error: reqwest::get(&url).await
\* fails, or answers with a status.
download_get(i) ==
    /\ Scheduled(i)
    /\ pc[i] = "download_gem"
    /\ \E response \in Responses :
        /\ ops' = ops \cup {Op(i, "get", Url(source, gems[i]))}
        /\ IF ~response.ok
           THEN /\ download_result' = [download_result EXCEPT ![i] = Err(<<"reqwest">>)]
                /\ TaskReturn(i, "failed_download")
           ELSE IF response.status # 200
           THEN /\ download_result' = [download_result EXCEPT ![i] = Err(<<"Failed to download">>)]
                /\ TaskReturn(i, "failed_download")
           ELSE /\ pc' = [pc EXCEPT ![i] = "download_bytes"]
                /\ UNCHANGED <<download_result, arc>>
    /\ UNCHANGED <<entry, first, main, result, parse_vars, bytes, gem_name, gz_result, tar_gz_result,
                   installed_gems, gemfiles, lock, fs>>

\* The archives served to the entry point called.
ServedBlobs == IF entry = "install_gems" THEN InstallGemBlobs ELSE GemBlobs

\* download.rs:32-36: response.bytes().await fails or gives the body; then
\* the cache directory is looked for, and tokio's create_dir_all is awaited
\* when it is not there.
download_bytes(i) ==
    /\ Scheduled(i)
    /\ pc[i] = "download_bytes"
    /\ \E body \in Bodies(ServedBlobs) :
        IF ~body.ok
        THEN /\ download_result' = [download_result EXCEPT ![i] = Err(<<"reqwest">>)]
             /\ TaskReturn(i, "failed_download")
             /\ UNCHANGED bytes
        ELSE /\ bytes' = [bytes EXCEPT ![i] = body.v]
             /\ pc' = [pc EXCEPT ![i] = IF Exists(fs, cache_directory)
                                        THEN "download_write" ELSE "download_mkdir"]
             /\ UNCHANGED <<download_result, arc>>
    /\ UNCHANGED <<entry, first, main, result, parse_vars, gem_name, gz_result, tar_gz_result,
                   installed_gems, gemfiles, lock, fs, ops>>

\* download.rs:36: create_dir_all(directory).await is over.
download_mkdir(i) ==
    /\ Scheduled(i)
    /\ pc[i] = "download_mkdir"
    /\ IF CanCreateDirAll(fs, cache_directory)
       THEN /\ fs' = CreateDirAll(fs, cache_directory)
            /\ pc' = [pc EXCEPT ![i] = "download_write"]
            /\ UNCHANGED <<download_result, arc>>
       ELSE /\ download_result' = [download_result EXCEPT ![i] = Err(<<"create_dir_all">>)]
            /\ TaskReturn(i, "failed_download")
            /\ UNCHANGED fs
    /\ ops' = ops \cup {Op(i, "create_dir_all", cache_directory)}
    /\ UNCHANGED <<entry, first, main, result, parse_vars, bytes, gem_name, gz_result, tar_gz_result,
                   installed_gems, gemfiles, lock>>

\* download.rs:38-43, and lib.rs:96-98 on an error.
download_write(i) ==
    /\ Scheduled(i)
    /\ pc[i] = "download_write"
    /\ LET path == Join(cache_directory, Filename(gems[i]))
       IN IF CanCreateFile(fs, path)
          THEN /\ fs' = WriteFile(fs, path, bytes[i])
               /\ ops' = ops \cup {Op(i, "create", path)}
               /\ download_result' = [download_result EXCEPT ![i] = Ok(path)]
               /\ pc' = [pc EXCEPT ![i] = "file_stem"]
               /\ UNCHANGED arc
          ELSE /\ download_result' = [download_result EXCEPT ![i] = Err(<<"create">>)]
               /\ TaskReturn(i, "failed_download")
               /\ UNCHANGED <<fs, ops>>
    /\ UNCHANGED <<entry, first, main, result, parse_vars, bytes, gem_name, gz_result, tar_gz_result,
                   installed_gems, gemfiles, lock>>

\* lib.rs:99-102
file_stem(i) ==
    /\ Scheduled(i)
    /\ pc[i] = "file_stem"
    /\ gem_name' = [gem_name EXCEPT ![i] = FileStem(download_result[i].v)]
    /\ IF gem_name'[i].some
       THEN pc' = [pc EXCEPT ![i] = "unpack_gem"] /\ UNCHANGED arc
       ELSE TaskReturn(i, "failed_file_stem")
    /\ UNCHANGED <<entry, first, main, result, parse_vars, bytes, download_result, gz_result,
                   tar_gz_result, installed_gems, gemfiles, lock, fs, ops>>

\* lib.rs:110-113
unpack_gem_step(i) ==
    /\ Scheduled(i)
    /\ pc[i] = "unpack_gem"
    /\ \E r \in {unpack_gem(fs, download_result[i].v, CacheSubdir(i))} :
          /\ fs' = r.fs
          /\ gz_result' = [gz_result EXCEPT ![i] = r.result]
          /\ IF r.result.ok
             THEN pc' = [pc EXCEPT ![i] = "unpack_tar_gz"] /\ UNCHANGED arc
             ELSE TaskReturn(i, "failed_unpack_gem")
    /\ ops' = ops \cup {Op(i, "unpack_gem", CacheSubdir(i))}
    /\ UNCHANGED <<entry, first, main, result, parse_vars, bytes, download_result, gem_name,
                   tar_gz_result, installed_gems, gemfiles, lock>>

\* lib.rs:116-119
unpack_tar_gz_step(i) ==
    /\ Scheduled(i)
    /\ pc[i] = "unpack_tar_gz"
    /\ \E r \in {unpack_tar_gz(fs, gz_result[i].v, CacheSubdir(i), GemsSubdir(i))},
          gz \in {unpack_gz(fs, gz_result[i].v, CacheSubdir(i))} :
          /\ fs' = r.fs
          /\ tar_gz_result' = [tar_gz_result EXCEPT ![i] = r.result]
          /\ IF r.result.ok
             THEN pc' = [pc EXCEPT ![i] = "lock_installed"] /\ UNCHANGED arc
             ELSE TaskReturn(i, "failed_unpack_tar_gz")
          /\ ops' = ops \cup {Op(i, "unpack_gz", CacheSubdir(i))}
                        \cup (IF gz.result.ok
                              THEN {Op(i, "unpack_tar", GemsSubdir(i))} ELSE {})
                        \cup {Op(i, "unpack_entry", p) : p \in r.written}
    /\ UNCHANGED <<entry, first, main, result, parse_vars, bytes, download_result, gem_name,
                   gz_result, installed_gems, gemfiles, lock>>

\* lib.rs:123, installed_gems.lock().await
lock_installed(i) ==
    /\ Scheduled(i)
    /\ pc[i] = "lock_installed"
    /\ lock.installed_gems = 0
    /\ lock' = [lock EXCEPT !.installed_gems = i]
    /\ pc' = [pc EXCEPT ![i] = "push_installed"]
    /\ UNCHANGED <<entry, first, main, result, parse_vars, bytes, download_result, gem_name,
                   gz_result, tar_gz_result, installed_gems, gemfiles, arc, fs, ops>>

\* lib.rs:121-126, without the push
push_installed_skip(i) ==
    /\ Scheduled(i)
    /\ pc[i] = "push_installed"
    /\ lock' = MutexGuardDrop("installed_gems")
    /\ IF tar_gz_result[i].v.some
       THEN pc' = [pc EXCEPT ![i] = "lock_gemfiles"] /\ UNCHANGED arc
       ELSE TaskReturn(i, "done")
    /\ UNCHANGED <<entry, first, main, result, parse_vars, bytes, download_result, gem_name,
                   gz_result, tar_gz_result, installed_gems, gemfiles, fs, ops>>
\* lib.rs:121-126: the push, the guard dropped at the end of the statement,
\* and the end of the block when no Gemfile was found.
push_installed(i) ==
    /\ Scheduled(i)
    /\ pc[i] = "push_installed"
    /\ installed_gems' = VecPush(installed_gems, gem_name[i].v)
    /\ lock' = MutexGuardDrop("installed_gems")
    /\ ops' = ops \cup {Op(i, "push_installed", gem_name[i].v)}
    /\ IF tar_gz_result[i].v.some
       THEN pc' = [pc EXCEPT ![i] = "lock_gemfiles"] /\ UNCHANGED arc
       ELSE TaskReturn(i, "done")
    /\ UNCHANGED <<entry, first, main, result, parse_vars, bytes, download_result, gem_name,
                   gz_result, tar_gz_result, gemfiles, fs>>

\* lib.rs:127, gemfiles.lock().await
lock_gemfiles(i) ==
    /\ Scheduled(i)
    /\ pc[i] = "lock_gemfiles"
    /\ lock.gemfiles = 0
    /\ lock' = [lock EXCEPT !.gemfiles = i]
    /\ pc' = [pc EXCEPT ![i] = "push_gemfiles"]
    /\ UNCHANGED <<entry, first, main, result, parse_vars, bytes, download_result, gem_name,
                   gz_result, tar_gz_result, installed_gems, gemfiles, arc, fs, ops>>

\* lib.rs:127-132
push_gemfiles(i) ==
    /\ Scheduled(i)
    /\ pc[i] = "push_gemfiles"
    /\ gemfiles' = VecPush(gemfiles, [gem_name |-> gem_name[i].v,
                                      gemfile_path |-> tar_gz_result[i].v.v])
    /\ lock' = MutexGuardDrop("gemfiles")
    /\ ops' = ops \cup {Op(i, "push_gemfiles", gem_name[i].v)}
    /\ TaskReturn(i, "done")
    /\ UNCHANGED <<entry, first, main, result, parse_vars, bytes, download_result, gem_name,
                   gz_result, tar_gz_result, installed_gems, fs>>

\* join_all(tasks).await is over when every task has ended.
JoinAllReady_first == \E i \in Tasks : pc[i] \in Terminal
JoinAllReady == \A i \in Tasks : pc[i] \in Terminal

\* lib.rs:134-147
install_gems_return ==
    /\ main = "join_all"
    /\ JoinAllReady
    /\ main' = "returned"
    /\ result' = IF arc.installed_gems # 1
                 THEN Some(Err(<<"installed_gems unwrap error">>))
                 ELSE IF arc.gemfiles # 1
                 THEN Some(Err(<<"gemfiles unwrap error">>))
                 ELSE Some(Ok([install_gems |-> installed_gems, find_gemfiles |-> gemfiles]))
    /\ UNCHANGED <<entry, first, parse_vars, task_vars, shared_vars, fs, ops>>

TaskStep(i) ==
    \/ download_get(i)
    \/ download_bytes(i)
    \/ download_mkdir(i)
    \/ download_write(i)
    \/ file_stem(i)
    \/ unpack_gem_step(i)
    \/ unpack_tar_gz_step(i)
    \/ lock_installed(i)
    \/ push_installed(i)
    \/ lock_gemfiles(i)
    \/ push_gemfiles(i)

Next ==
    \/ parse_other
    \/ parse_gem_pinned
    \/ parse_gem_lookup
    \/ parse_return
    \/ install_gems_start
    \/ \E i \in 1..MaxLines : TaskStep(i)
    \/ install_gems_return

Spec == Init /\ [][Next]_vars

\* join_all polls every task that can go on, and install_gems goes on when
\* join_all is over: a step that can be taken is taken.
FairSpec == Spec /\ WF_vars(Next)

(***************************************************************************)
(* install_gems called on its own, with one gem, over a filesystem that    *)
(* holds files of earlier runs, and then called again with the same        *)
(* arguments.                                                              *)
(***************************************************************************)
Gem_a == [name |-> <<"a">>, version |-> V_1_0_0]

S_old_rb == <<"o", "l", "d", ".", "r", "b">>

\* The files an earlier run may have left: the downloaded archive of another
\* build of the gem, a data.tar.gz in the cache subdirectory, a file in the
\* install subdirectory.
StaleFiles ==
    {[path |-> Join(cache_directory, Filename(Gem_a)), body |-> "gem_gemfile"],
     [path |-> Join(Join(cache_directory, FileStem(Filename(Gem_a)).v), GEM_DATA_FILE),
      body |-> "gz_gemfile"],
     [path |-> Join(Join(install_dictionary, FileStem(Filename(Gem_a)).v), S_old_rb),
      body |-> "old"]}

\* The filesystem that holds the given files and their directories.
MakeFs(files) ==
    [p \in UNION {Ancestors(file.path) : file \in files} |->
        IF \E file \in files : file.path = p
        THEN (CHOOSE file \in files : file.path = p).body
        ELSE DIR]

\* install_gems(&gemfile_data, install_dictionary, cache_directory)
InitInstall ==
    /\ entry = "install_gems"
    /\ data = <<>>
    /\ registry = {}
    /\ main = "install_gems"
    /\ line_no = 1
    /\ source = DefaultSource
    /\ gems = <<Gem_a>>
    /\ lookups = <<>>
    /\ result = None
    /\ pc = <<>>
    /\ bytes = <<>>
    /\ download_result = <<>>
    /\ gem_name = <<>>
    /\ gz_result = <<>>
    /\ tar_gz_result = <<>>
    /\ installed_gems = <<>>
    /\ gemfiles = <<>>
    /\ lock = [installed_gems |-> 0, gemfiles |-> 0]
    /\ arc = [installed_gems |-> 0, gemfiles |-> 0]
    /\ fs \in {MakeFs(files) : files \in SUBSET StaleFiles}
    /\ ops = {}
    /\ first = None

\* The first call has returned: install_gems is called again with the same
\* arguments, over the filesystem the first call left.
install_gems_again ==
    /\ entry = "install_gems"
    /\ main = "returned"
    /\ ~first.some
    /\ first' = Some([fs |-> fs, bytes |-> bytes, pc |-> pc, tar_gz_result |-> tar_gz_result])
    /\ main' = "install_gems"
    /\ result' = None
    /\ UNCHANGED <<entry, parse_vars, task_vars, shared_vars, fs, ops>>

NextInstall ==
    \/ install_gems_start
    \/ \E i \in Tasks : TaskStep(i)
    \/ install_gems_return
    \/ install_gems_again

SpecInstall == InitInstall /\ [][NextInstall]_vars

(***************************************************************************)
(* Properties.                                                             *)
(***************************************************************************)
Returned == main = "returned" /\ result.some

\* install_gems was entered: the Arcs exist.
InstallGemsCalled == arc.installed_gems > 0

ReturnedReport == Returned /\ InstallGemsCalled /\ result.v.ok

Report == result.v.v

\* format!("{}-{}", name, version), the key a package is installed under
NameVersion(gem) == gem.name \o <<"-">> \o gem.version

StagesRun(i) == {o.op : o \in {o \in ops : o.task = i}}

Succeeded(i) == download_result[i].ok /\ gz_result[i].ok /\ tar_gz_result[i].ok

Count(seq, x) == Cardinality({k \in 1..Len(seq) : seq[k] = x})

\* C1: when the packages of the manifest are pairwise distinct in name and
\* version and every package's fetch, outer extraction and inner extraction
\* succeeded, the returned report's install_gems has as many entries as the
\* manifest has packages, and exactly one entry for each package.
C1_OneEntryPerPackage ==
    (/\ ReturnedReport
     /\ \A i, j \in Tasks : i # j => gems[i] # gems[j]
     /\ \A i \in Tasks : Succeeded(i))
    => /\ Len(Report.install_gems) = Len(gems)
       /\ \A i \in Tasks : Count(Report.install_gems, NameVersion(gems[i])) = 1

C1_Witness ==
    /\ ReturnedReport
    /\ Len(gems) >= 2
    /\ \A i, j \in Tasks : i # j => gems[i] # gems[j]
    /\ \A i \in Tasks : Succeeded(i)
    /\ Len(Report.install_gems) = Len(gems)

HasDataEntry(blob) == \E k \in 1..Len(TarOf(blob).entries) : TarOf(blob).entries[k].path = GEM_DATA_FILE

\* C2: a task that failed at a stage has run no later stage and has pushed
\* nothing onto installed_gems or gemfiles; a task whose outer archive has no
\* data.tar.gz entry fails in unpack_gem once it has run it.
C2_FailureStopsPipeline ==
    \A i \in Tasks :
        /\ pc[i] = "failed_download" =>
             StagesRun(i) \cap {"unpack_gem", "unpack_gz", "unpack_tar",
                                "push_installed", "push_gemfiles"} = {}
        /\ pc[i] = "failed_unpack_gem" =>
             StagesRun(i) \cap {"unpack_gz", "unpack_tar", "push_installed", "push_gemfiles"} = {}
        /\ pc[i] = "failed_unpack_tar_gz" =>
             StagesRun(i) \cap {"push_installed", "push_gemfiles"} = {}
        /\ ("unpack_gem" \in StagesRun(i) /\ ~HasDataEntry(bytes[i])) =>
             /\ pc[i] = "failed_unpack_gem"
             /\ ~gz_result[i].ok
             /\ StagesRun(i) \cap {"push_installed", "push_gemfiles"} = {}

C2_Witness ==
    /\ ReturnedReport
    /\ \E i, k \in Tasks :
        /\ pc[i] = "failed_unpack_gem" /\ bytes[i] = "gem_nodata"
        /\ pc[k] = "done"
        /\ Len(Report.install_gems) = 1

\* The error a failed task ended with.
TerminalError(i) ==
    CASE pc[i] = "failed_download" -> download_result[i].v
      [] pc[i] = "failed_unpack_gem" -> gz_result[i].v
      [] pc[i] = "failed_unpack_tar_gz" -> tar_gz_result[i].v
      [] OTHER -> <<>>

\* Every string an InstallInfo carries.
ReportStrings(info) ==
    Range(info.install_gems)
    \cup {info.find_gemfiles[k].gem_name : k \in 1..Len(info.find_gemfiles)}
    \cup {info.find_gemfiles[k].gemfile_path : k \in 1..Len(info.find_gemfiles)}

\* C3: the returned report carries the terminal error of every task that
\* failed.
C3_ErrorsSurfaced ==
    ReturnedReport =>
        \A i \in Tasks :
            pc[i] \in Terminal \ {"done"} => TerminalError(i) \in ReportStrings(Report)

\* C4: once install_gems has been entered, what is returned is Ok: neither
\* Arc::try_unwrap fails.
C4_NeverFailsAsAWhole == (Returned /\ InstallGemsCalled) => result.v.ok

C4_Witness ==
    /\ ReturnedReport
    /\ \E i, j \in Tasks : pc[i] = "done" /\ pc[j] \in Terminal \ {"done"}

\* C5: every install_gems entry and every find_gemfiles gem_name of the
\* returned report is the name of a gem of the manifest.
C5_RecordsPackageName ==
    ReturnedReport =>
        /\ \A k \in 1..Len(Report.install_gems) :
             \E i \in Tasks : Report.install_gems[k] = gems[i].name
        /\ \A k \in 1..Len(Report.find_gemfiles) :
             \E i \in Tasks : Report.find_gemfiles[k].gem_name = gems[i].name

\* C6: no subdirectory is reset or written by two different tasks.
C6_ExclusiveSubdirs ==
    \A o1, o2 \in {o \in ops : o.op \in {"unpack_gem", "unpack_gz", "unpack_tar"}} :
        o1.target = o2.target => o1.task = o2.task

\* C7: install_gems has returned only when every task has ended, and once it
\* has returned no task takes a step: nothing is fetched, written or pushed.
C7_ReturnsAfterAllTasks ==
    /\ [](Returned => \A i \in Tasks : pc[i] \in Terminal)
    /\ [][Returned => UNCHANGED <<pc, fs, installed_gems, gemfiles, ops>>]_vars

C7_Witness ==
    /\ ReturnedReport
    /\ Len(gems) >= 2
    /\ \A i \in Tasks : "get" \in StagesRun(i)
    /\ \E i \in Tasks : "push_gemfiles" \in StagesRun(i)

\* C8: install_from_gemfile_literal eventually returns, whatever the number
\* of packages and of failing packages.
C8_EventuallyReturns == <>Returned

C8_Witness ==
    /\ ReturnedReport
    /\ Len(gems) >= 2
    /\ Len(installed_gems) >= 2
    /\ Len(gemfiles) >= 1

\* The lines the loop of parse has gone through, and the gem lines among them.
LineAt(l) == StripLeadingSpaces(Lines(data)[l])
DoneLines == 1..(line_no - 1)
GemLinesUpTo(l) == {m \in 1..l : IsGemLine(LineAt(m))}
HasVersionToken(line) ==
    Let(Split(Trimmed(line), ","), LAMBDA tokens :
        Len(tokens) >= 2 /\ GEM_VERSION_REGEX_is_match(tokens[2]))
LookupsAt(l) == {k \in 1..Len(lookups) : lookups[k].line = l}

\* The lines of the manifest without their leading spaces.
StrippedLines ==
    Let(Lines(data), LAMBDA ls : [m \in 1..Len(ls) |-> StripLeadingSpaces(ls[m])])

GemDirectivesUpTo(lines, l) == {m \in 1..l : StartsWith(lines[m], S_gem)}

\* C9: for every gem line gone through, get_version was called (once) exactly
\* when the line has no second token matching the version pattern; a pinned
\* gem has its second token as version, an unpinned gem has the version the
\* lookup for its name answered.
C9_LookupIffUnpinned ==
    Let(StrippedLines, LAMBDA lines :
        /\ \A k \in 1..Len(lookups) :
             /\ StartsWith(lines[lookups[k].line], S_gem)
             /\ ~HasVersionToken(lines[lookups[k].line])
        /\ \A l \in DoneLines :
            StartsWith(lines[l], S_gem) =>
                Let(Split(Trimmed(lines[l]), ","), LAMBDA tokens :
                    LET gem == gems[Cardinality(GemDirectivesUpTo(lines, l))]
                    IN IF Len(tokens) >= 2 /\ GEM_VERSION_REGEX_is_match(tokens[2])
                       THEN /\ LookupsAt(l) = {}
                            /\ gem.version = tokens[2]
                       ELSE /\ Cardinality(LookupsAt(l)) = 1
                            /\ \A k \in LookupsAt(l) :
                                 /\ lookups[k].gem_name = gem.name
                                 /\ lookups[k].answer.ok
                                 /\ gem.version = lookups[k].answer.v))

C9_Witness ==
    /\ Returned /\ result.v.ok
    /\ \E l, m \in DoneLines :
         /\ IsGemLine(LineAt(l)) /\ HasVersionToken(LineAt(l))
         /\ IsGemLine(LineAt(m)) /\ ~HasVersionToken(LineAt(m))
         /\ gems[Cardinality(GemLinesUpTo(m))].version = V_1_0_0

\* C10: when a lookup has failed, it is the last one made, parse stopped at
\* its line, install_from_gemfile_literal has returned the error, and no
\* task was started and nothing was fetched or written.
C10_LookupFailureIsFatal ==
    \A k \in 1..Len(lookups) :
        ~lookups[k].answer.ok =>
            /\ k = Len(lookups)
            /\ line_no = lookups[k].line
            /\ Returned /\ ~result.v.ok
            /\ ~InstallGemsCalled
            /\ Tasks = {}
            /\ ops = {}
            /\ DOMAIN fs = {}

C10_Witness ==
    /\ Returned /\ ~result.v.ok
    /\ ~lookups[Len(lookups)].answer.ok
    /\ line_no < Len(Lines(data))
    /\ IsGemLine(LineAt(line_no + 1))

\* The install subdirectory of a gem, and what a filesystem holds in it.
InstallSubdirOf(gem) == Join(install_dictionary, FileStem(Filename(gem)).v)
CacheSubdirOf(gem) == Join(cache_directory, FileStem(Filename(gem)).v)
Contents(f, directory) == [p \in {q \in DOMAIN f : Under(q, directory)} |-> f[p]]

SecondCallReturned == entry = "install_gems" /\ Returned /\ first.some

\* C11: when install_gems has been called twice with the same gem and both
\* calls fetched the same bytes, the install subdirectory of the gem holds
\* after the second call exactly what it held after the first, whatever the
\* cache and install subdirectories held before the first.
C11_SecondRunSameContents ==
    (SecondCallReturned /\ bytes = first.v.bytes) =>
        \A i \in Tasks :
            Contents(fs, InstallSubdirOf(gems[i])) = Contents(first.v.fs, InstallSubdirOf(gems[i]))

C11_Witness ==
    /\ SecondCallReturned
    /\ bytes = first.v.bytes
    /\ bytes[1] = "gem_names"
    /\ pc[1] = "done" /\ first.v.pc[1] = "done"
    /\ Join(InstallSubdirOf(gems[1]), S_lib_Gemfile) \in DOMAIN fs
    /\ Join(InstallSubdirOf(gems[1]), S_old_rb) \notin DOMAIN fs

\* C12: every file unpack_tar has written for a task lies inside the
\* install subdirectory of the task's gem.
C12_EntriesInsideInstallDir ==
    \A o \in {o \in ops : o.op = "unpack_entry"} :
        Under(o.target, InstallSubdirOf(gems[o.task]))

\* The entries of the inner tar of task i, read from the decompressed
\* data.tar of its cache subdirectory.
InnerTarEntries(i) ==
    TarOf(fs[Join(CacheSubdirOf(gems[i]), FileStem(GEM_DATA_FILE).v)]).entries

NamedGemfile(entries) ==
    {k \in 1..Len(entries) :
        FileName(entries[k].path).some /\ FileName(entries[k].path).v = S_Gemfile}

Max(S) == CHOOSE k \in S : \A j \in S : j <= k

\* C13: when unpack_tar_gz has succeeded for a task, what it returned is
\* None if no entry of the inner tar has Gemfile as its final component, and
\* otherwise Some(install subdirectory joined with the name of the last
\* such entry).
C13_LastGemfileReturned ==
    \A i \in Tasks :
        tar_gz_result[i].ok =>
            IF NamedGemfile(InnerTarEntries(i)) = {}
            THEN ~tar_gz_result[i].v.some
            ELSE /\ tar_gz_result[i].v.some
                 /\ tar_gz_result[i].v.v =
                        Join(InstallSubdirOf(gems[i]),
                             InnerTarEntries(i)[Max(NamedGemfile(InnerTarEntries(i)))].path)

C13_Witness ==
    /\ entry = "install_gems"
    /\ 1 \in Tasks
    /\ bytes[1] = "gem_names"
    /\ tar_gz_result[1].ok
    /\ Cardinality(NamedGemfile(InnerTarEntries(1))) = 2
    /\ tar_gz_result[1].v.v = Join(InstallSubdirOf(gems[1]), S_lib_Gemfile)
    /\ pc[1] = "done"

ParseSucceeded == entry = "parse" /\ Returned /\ result.v.ok

\* The lines of the manifest that are gem directives once their leading
\* spaces are removed, in line order and without those spaces.
GemDirectiveLines == SelectSeq(StrippedLines, LAMBDA l : StartsWith(l, S_gem))

\* C14: when parse has succeeded, gems has one entry for each gem directive
\* line of the manifest, in line order and with repeated lines repeated:
\* the k-th entry has the name of the k-th gem directive line, and no other
\* line has added an entry.
C14_OneGemPerDirectiveInOrder ==
    ParseSucceeded =>
        Let(GemDirectiveLines, LAMBDA directives :
            /\ Len(result.v.v.gems) = Len(directives)
            /\ \A k \in 1..Len(directives) :
                 result.v.v.gems[k].name = Splitted(directives[k])[1])

C14_Witness ==
    /\ ParseSucceeded
    /\ Len(Lines(data)) = 2
    /\ Lines(data)[1] = Lines(data)[2]
    /\ Len(GemDirectiveLines) = 2
    /\ Len(result.v.v.gems) = 2
    /\ result.v.v.gems[1] = result.v.v.gems[2]

\* A line without its leading spaces and tabs.
StripLeadingWhitespace(line) ==
    LET R[t \in Str] ==
            IF t # <<>> /\ Head(t) \in {" ", "\t"} THEN R[Tail(t)] ELSE t
    IN R[line]

\* C15: when parse has succeeded, gems has one entry for each line that is a
\* gem directive once its leading spaces and tabs are removed, with the name
\* the directive has without indentation.
C15_LeadingWhitespaceStripped ==
    ParseSucceeded =>
        LET directives ==
                SelectSeq(Lines(data), LAMBDA l : StartsWith(StripLeadingWhitespace(l), S_gem))
        IN /\ Len(result.v.v.gems) = Len(directives)
           /\ \A k \in 1..Len(directives) :
                result.v.v.gems[k].name = Splitted(StripLeadingWhitespace(directives[k]))[1]

\* C16: when parse has succeeded, every Gem of the result has a name and a
\* version that are not empty.
C16_NameAndVersionNotEmpty ==
    ParseSucceeded =>
        \A k \in 1..Len(result.v.v.gems) :
            result.v.v.gems[k].name # <<>> /\ result.v.v.gems[k].version # <<>>

\* The tasks that have pushed onto installed_gems, and those that have
\* pushed onto gemfiles.
PushedInstalled == {i \in Tasks : pc[i] \in {"lock_gemfiles", "push_gemfiles", "done"}}
PushedGemfile == {i \in Tasks : pc[i] = "done" /\ tar_gz_result[i].v.some}

\* C17: in every state, every gemfiles entry has its gem_name in
\* installed_gems already; installed_gems has exactly one entry for each
\* task that has gone past its push, gemfiles has one for each ended task
\* that found a Gemfile and none for the others, and a task that has ended
\* well has its entry in installed_gems.
C17_GemfilesWithinInstalled ==
    /\ \A k \in 1..Len(gemfiles) :
         \E j \in 1..Len(installed_gems) : installed_gems[j] = gemfiles[k].gem_name
    /\ Len(installed_gems) = Cardinality(PushedInstalled)
    /\ Len(gemfiles) = Cardinality(PushedGemfile)
    /\ \A i \in Tasks :
         pc[i] = "done" =>
            /\ Count(installed_gems, gem_name[i].v) >= 1
            /\ tar_gz_result[i].v.some =>
                 \E k \in 1..Len(gemfiles) :
                     /\ gemfiles[k].gem_name = gem_name[i].v
                     /\ gemfiles[k].gemfile_path = tar_gz_result[i].v.v

C17_Witness ==
    /\ main = "join_all"
    /\ Len(gemfiles) = 1
    /\ Len(installed_gems) = 2
    /\ \E i, j \in Tasks :
         /\ pc[i] = "done" /\ tar_gz_result[i].v.some
         /\ pc[j] = "lock_gemfiles"
         /\ gemfiles[1].gem_name = gem_name[i].v

\* The source directives among the first l of the lines, and the source
\* they leave in effect.
SourceDirectivesUpTo(lines, l) == {m \in 1..l : StartsWith(lines[m], S_source)}

SourceInEffect(lines, l) ==
    IF SourceDirectivesUpTo(lines, l) = {} THEN DefaultSource
    ELSE SourceOf(lines[Max(SourceDirectivesUpTo(lines, l))])

\* C18: every lookup was made with the source in effect at its line; the
\* gem of a lookup that was answered keeps the answered version whatever
\* source directives follow; every download is asked of the source in
\* effect at the end of the manifest.
C18_SourceInEffect ==
    (lookups # <<>> \/ ops # {}) =>
        Let(StrippedLines, LAMBDA lines :
            /\ \A k \in 1..Len(lookups) :
                 /\ lookups[k].source = SourceInEffect(lines, lookups[k].line)
                 /\ lookups[k].answer.ok =>
                      gems[Cardinality(GemDirectivesUpTo(lines, lookups[k].line))].version
                          = lookups[k].answer.v
            /\ Let(SourceInEffect(lines, Len(lines)), LAMBDA last :
                   \A o \in {o \in ops : o.op = "get"} : o.target = Url(last, gems[o.task])))

C18_Witness ==
    /\ Len(lookups) = 1
    /\ lookups[1].line = 1
    /\ lookups[1].source = DefaultSource
    /\ source = <<"s">>
    /\ gems[1].version = lookups[1].answer.v
    /\ \E o \in ops : o.op = "get" /\ o.target = Url(<<"s">>, gems[1])

\* Task i takes the step, from the given positions.
StepsFrom(i, positions) == pc[i] \in positions /\ pc'[i] # pc[i]

\* The step leaves every path outside the directory as it was.
UnchangedOutside(directory) ==
    \A p \in DOMAIN fs \cup DOMAIN fs' :
        ~Under(p, directory) =>
            /\ p \in DOMAIN fs /\ p \in DOMAIN fs'
            /\ fs'[p] = fs[p]

UnchangedInside(directory) == Contents(fs', directory) = Contents(fs, directory)

\* C19: the two requests of download_gem, failing or not, write nothing;
\* the rest of download_gem and file_stem leave the install subdirectory of
\* the gem as it was; unpack_gem, failing or not, changes nothing outside
\* the cache subdirectory of the gem; unpack_tar_gz leaves the install
\* subdirectory as it was when the gunzip of data.tar.gz fails.
C19_FailedPipelineFrame ==
    [][\A i \in Tasks :
        /\ StepsFrom(i, {"download_gem", "download_bytes"}) => fs' = fs
        /\ StepsFrom(i, {"download_mkdir", "download_write", "file_stem"}) =>
              UnchangedInside(InstallSubdirOf(gems[i]))
        /\ StepsFrom(i, {"unpack_gem"}) => UnchangedOutside(CacheSubdirOf(gems[i]))
        /\ (/\ StepsFrom(i, {"unpack_tar_gz"})
            /\ ~unpack_gz(fs, gz_result[i].v, CacheSubdirOf(gems[i])).result.ok) =>
              /\ pc'[i] = "failed_unpack_tar_gz"
              /\ UnchangedInside(InstallSubdirOf(gems[i]))]_vars

C19_Witness ==
    /\ entry = "install_gems"
    /\ ~first.some
    /\ 1 \in Tasks
    /\ pc[1] = "failed_unpack_gem"
    /\ bytes[1] = "gem_nodata"
    /\ Join(InstallSubdirOf(gems[1]), S_old_rb) \in DOMAIN fs
    /\ CacheSubdirOf(gems[1]) \in DOMAIN fs
    /\ Join(CacheSubdirOf(gems[1]), GEM_DATA_FILE) \notin DOMAIN fs
    /\ Join(CacheSubdirOf(gems[1]), S_metadata_gz) \in DOMAIN fs

====
